---- MODULE Spec2Model ----
(***************************************************************************)
(* Model of python/plot.py (and of the loader it shares with               *)
(* Tests/python/plot.py): the module-level loader, find_taper_point and    *)
(* plot_metric, followed by the four module-level plot_metric calls.       *)
(*                                                                         *)
(* Floating-point columns are held as fixed-point integers in units of     *)
(* 1/Scale, so 56.1 is 561.  A gain dm / (dc + 1e-9) is held as the pair   *)
(* (num, den) = (dm, dc) and compared with a rational threshold tn/td by   *)
(* exact cross-multiplication, the 1e-9 included.                          *)
(***************************************************************************)
EXTENDS Integers, Sequences, FiniteSets, TLC

VARIABLES pc, file, df, harris, fast, graphs, annot, raised, d, min_step, calls

vars == <<pc, file, df, harris, fast, graphs, annot, raised, d, min_step, calls>>

\* ---------------------------------------------------------------- bounds
MaxRows == 4          \* rows of a well-formed input table
MaxRowsMissing == 2   \* rows of an input table that lacks columns
MaxLen == 4           \* rows of a subset handed directly to find_taper_point
MaxMinStep == 3       \* largest min_step of a direct call

\* ------------------------------------------------------------- constants
Scale == 10                 \* fixed-point units per 1.0
EpsilonInv == 1000000000    \* 1 / 1e-9
None == -1                  \* Python None as a taper index
DefaultMinStep == 3

Required == {"preset", "features", "avg_ms", "grid_occupancy_percent",
             "descriptor_density_per_occupied_cell"}

s_harris_ == <<"h", "a", "r", "r", "i", "s", "_">>
s_fast_ == <<"f", "a", "s", "t", "_">>

NoError == [by |-> "none", error |-> "none"]

\* --------------------------------------------------------------- helpers
\* df["preset"].astype(str): a string stays, an integer becomes its digits,
\* a missing cell becomes "nan".
Digit(n) ==
  CASE n = 0 -> "0" [] n = 1 -> "1" [] n = 2 -> "2" [] n = 3 -> "3"
    [] n = 4 -> "4" [] n = 5 -> "5" [] n = 6 -> "6" [] n = 7 -> "7"
    [] n = 8 -> "8" [] OTHER -> "9"

RECURSIVE Digits(_)
Digits(n) ==
  IF n < 10 THEN <<Digit(n)>> ELSE Append(Digits(n \div 10), Digit(n % 10))

astype_str(cell) ==
  CASE cell.kind = "str" -> cell.val
    [] cell.kind = "int" -> Digits(cell.val)
    [] OTHER -> <<"n", "a", "n">>

\* Series.str.startswith(prefix), character by character
str_startswith_short(s, prefix) ==
  /\ Len(s) >= Len(prefix) - 1
  /\ \A k \in 1..(Len(prefix) - 1) : s[k] = prefix[k]

str_startswith(s, prefix) ==
  /\ Len(s) >= Len(prefix)
  /\ \A k \in 1..Len(prefix) : s[k] = prefix[k]

\* df[mask]: the rows whose mask is true, in table order
RECURSIVE Filter(_, _)
Filter(rows, prefix) ==
  IF rows = <<>> THEN <<>>
  ELSE LET rest == Filter(Tail(rows), prefix)
       IN IF str_startswith(Head(rows).preset, prefix)
          THEN <<Head(rows)>> \o rest ELSE rest

\* DataFrame.sort_values("features") with the default kind="quicksort":
\* ascending by the key, the order of equal keys not promised.  The set of
\* results the sort may produce from the rows at positions S.
RECURSIVE SortOutcomes(_, _)
SortOutcomes(rows, S) ==
  IF S = {} THEN {<<>>}
  ELSE LET least == {i \in S : \A j \in S : rows[i].features <= rows[j].features}
       IN UNION {{<<rows[i]>> \o rest : rest \in SortOutcomes(rows, S \ {i})}
                 : i \in least}

sort_values(rows) == SortOutcomes(rows, 1..Len(rows))

\* d[col].astype(float).to_numpy(): the column in fixed point
Column(rows, col) ==
  [i \in 1..Len(rows) |->
     IF col = "features" THEN rows[i][col] * Scale ELSE rows[i][col]]

\* a[1:] - a[:-1]; both slices of an empty array are empty
Diff(a) ==
  [i \in 1..(IF Len(a) = 0 THEN 0 ELSE Len(a) - 1) |-> a[i + 1] - a[i]]

Abs(x) == IF x < 0 THEN -x ELSE x

\* gain_per_ms = dm / (dc + 1e-9), kept as the fraction num / (den + 1e-9)
gain_per_ms_abs(dm, dc) ==
  [i \in 1..Len(dm) |-> [num |-> Abs(dm[i]), den |-> dc[i]]]

gain_per_ms_swapped(dm, dc) ==
  [i \in 1..Len(dm) |-> [num |-> dc[i], den |-> dm[i]]]

gain_per_ms(dm, dc) ==
  [i \in 1..Len(dm) |-> [num |-> dm[i], den |-> dc[i]]]

\* g < threshold for g = num / (den + 1e-9) and threshold = tn / td, td > 0.
\* In fixed point the quotient is num / (den + Scale/EpsilonInv).  With
\* X = num*td - tn*den the comparison is X * EpsilonInv < tn * Scale when
\* the denominator is positive (den >= 0) and X * EpsilonInv > tn * Scale
\* when it is negative (den <= -1); it is never zero for an integer den.
\* The products with EpsilonInv are taken by rounding tn*Scale/EpsilonInv.
Below_flipped(g, threshold) ==
  LET X == g.num * threshold[2] - threshold[1] * g.den
      T == threshold[1] * Scale
  IN IF g.den >= 0 THEN X > (T \div EpsilonInv)
     ELSE X < -((-T) \div EpsilonInv)

Below(g, threshold) ==
  LET X == g.num * threshold[2] - threshold[1] * g.den
      T == threshold[1] * Scale
  IN IF g.den >= 0 THEN X < -((-T) \div EpsilonInv)
     ELSE X > (T \div EpsilonInv)

\* gain_per_ms[i:i+min_step], 0-based, truncated at the end of the array
Slice(g, i, j) ==
  [k \in 1..((IF j < Len(g) THEN j ELSE Len(g)) - i) |-> g[i + k]]

\* (gain_per_ms[i:i+min_step] < threshold).all()
WindowBelow_any(w, threshold) == \E k \in 1..Len(w) : Below(w[k], threshold)

WindowBelow(w, threshold) == \A k \in 1..Len(w) : Below(w[k], threshold)

\* range(len(gain_per_ms) - min_step + 1)
ScanRange_plus(n, ms) == n - ms + 2

ScanRange(n, ms) == n - ms + 1

\* return i + 1
ReturnIndex_zero(i) == i

ReturnIndex(i) == i + 1

RECURSIVE TaperScan(_, _, _, _)
TaperScan(g, i, ms, threshold) ==
  IF i >= ScanRange(Len(g), ms) THEN None
  ELSE IF WindowBelow(Slice(g, i, i + ms), threshold) THEN ReturnIndex(i)
       ELSE TaperScan(g, i + 1, ms, threshold)

gains(rows, metric_col, cost_col) ==
  gain_per_ms(Diff(Column(rows, metric_col)), Diff(Column(rows, cost_col)))

find_taper_point(rows, metric_col, cost_col, ms, threshold) ==
  TaperScan(gains(rows, metric_col, cost_col), 0, ms, threshold)

\* ---------------------------------------------------------------- inputs
Str(s) == [kind |-> "str", val |-> s]

ProfileA == [features |-> 1, avg_ms |-> 20, grid_occupancy_percent |-> 10,
             descriptor_density_per_occupied_cell |-> 10]
ProfileB == [features |-> 2, avg_ms |-> 10, grid_occupancy_percent |-> 20,
             descriptor_density_per_occupied_cell |-> 20]
ProfileC == [features |-> 1, avg_ms |-> 10, grid_occupancy_percent |-> 20,
             descriptor_density_per_occupied_cell |-> 10]

Row(preset, p) ==
  [preset |-> preset, features |-> p.features, avg_ms |-> p.avg_ms,
   grid_occupancy_percent |-> p.grid_occupancy_percent,
   descriptor_density_per_occupied_cell |-> p.descriptor_density_per_occupied_cell]

RowPool ==
  {Row(Str(s), p) : s \in {s_harris_ \o <<"1">>, s_fast_ \o <<"1">>},
                    p \in {ProfileA, ProfileB, ProfileC}}
  \cup {Row(Str(<<"h", "a", "r", "r", "i", "s">>), ProfileA),
        Row([kind |-> "int", val |-> 17], ProfileB)}

SeqsUpTo(S, n) == UNION {[1..k -> S] : k \in 0..n}

\* a sheet that lacks a column has no such field in its rows
Project(row, cols) == [c \in cols |-> row[c]]

Files ==
  {[exists |-> FALSE, cols |-> {}, rows |-> <<>>]}
  \cup {[exists |-> TRUE, cols |-> Required, rows |-> t] : t \in SeqsUpTo(RowPool, MaxRows)}
  \cup {[exists |-> TRUE, cols |-> cs, rows |-> [i \in 1..Len(t) |-> Project(t[i], cs)]]
        : cs \in (SUBSET Required) \ {Required}, t \in SeqsUpTo(RowPool, MaxRowsMissing)}

NoFile == [exists |-> FALSE, cols |-> {}, rows |-> <<>>]

\* the harris rows of the end-to-end table, in fixed point
EndToEnd ==
  <<[avg_ms |-> 100, grid_occupancy_percent |-> 400],
    [avg_ms |-> 180, grid_occupancy_percent |-> 550],
    [avg_ms |-> 270, grid_occupancy_percent |-> 560],
    [avg_ms |-> 360, grid_occupancy_percent |-> 561]>>

DirectRows == [avg_ms : 0..1, grid_occupancy_percent : 0..2]

Thresholds == {<<0, 1>>, <<1, 20>>, <<1, 1>>}

Empty == [x \in {} |-> 0]

\* the four module-level plot_metric calls
PlotCalls ==
  [plot1 |-> [metric_col |-> "grid_occupancy_percent",
              filename |-> "grid_occupancy_vs_features.png",
              use_cost_x |-> FALSE, taper_threshold |-> <<1, 20>>, next |-> "plot2"],
   plot2 |-> [metric_col |-> "grid_occupancy_percent",
              filename |-> "grid_occupancy_vs_time.png",
              use_cost_x |-> TRUE, taper_threshold |-> <<1, 20>>, next |-> "plot3"],
   plot3 |-> [metric_col |-> "descriptor_density_per_occupied_cell",
              filename |-> "density_vs_features.png",
              use_cost_x |-> FALSE, taper_threshold |-> <<1, 5>>, next |-> "plot4"],
   plot4 |-> [metric_col |-> "descriptor_density_per_occupied_cell",
              filename |-> "density_vs_time.png",
              use_cost_x |-> TRUE, taper_threshold |-> <<1, 5>>, next |-> "done"]]

\* ------------------------------------------------------------------ Init
ScriptInit ==
  /\ pc = "read_excel"
  /\ file \in Files
  /\ df = <<>> /\ harris = <<>> /\ fast = <<>>
  /\ graphs = {} /\ annot = Empty /\ raised = NoError
  /\ d = <<>> /\ min_step = DefaultMinStep /\ calls = Empty

\* find_taper_point called on its own with arbitrary arguments
DirectInit ==
  /\ pc = "direct"
  /\ file = NoFile
  /\ df = <<>> /\ harris = <<>> /\ fast = <<>>
  /\ graphs = {} /\ annot = Empty /\ raised = NoError
  /\ d \in SeqsUpTo(DirectRows, MaxLen) \cup {EndToEnd}
  /\ min_step \in 1..MaxMinStep
  /\ calls = Empty

Init == ScriptInit \/ DirectInit

\* --------------------------------------------------------------- actions
Abort(by, error) ==
  /\ pc' = "aborted"
  /\ raised' = [by |-> by, error |-> error]

\* df = pd.read_excel(FILE)
read_excel ==
  /\ pc = "read_excel"
  /\ IF ~file.exists
     THEN /\ Abort("Loader", "FileNotFoundError")
          /\ UNCHANGED df
     ELSE /\ df' = [i \in 1..Len(file.rows) |->
                      [c \in file.cols \cup {"orig"} |->
                         IF c = "orig" THEN i ELSE file.rows[i][c]]]
          /\ pc' = "astype"
          /\ UNCHANGED raised
  /\ UNCHANGED <<file, harris, fast, graphs, annot, d, min_step, calls>>

\* df["preset"] = df["preset"].astype(str)
astype_preset ==
  /\ pc = "astype"
  /\ IF "preset" \notin file.cols
     THEN /\ Abort("Loader", "KeyError")
          /\ UNCHANGED df
     ELSE /\ df' = [i \in 1..Len(df) |-> [df[i] EXCEPT !.preset = astype_str(@)]]
          /\ pc' = "harris"
          /\ UNCHANGED raised
  /\ UNCHANGED <<file, harris, fast, graphs, annot, d, min_step, calls>>

\* harris = df[df["preset"].str.startswith("harris_")]
\*            .sort_values("features").reset_index(drop=True)
load_harris ==
  /\ pc = "harris"
  /\ IF "features" \notin file.cols
     THEN /\ Abort("Loader", "KeyError")
          /\ UNCHANGED harris
     ELSE /\ harris' \in sort_values(Filter(df, s_harris_))
          /\ pc' = "fast"
          /\ UNCHANGED raised
  /\ UNCHANGED <<file, df, fast, graphs, annot, d, min_step, calls>>

\* fast = df[df["preset"].str.startswith("fast_")]
\*          .sort_values("features").reset_index(drop=True)
load_fast ==
  /\ pc = "fast"
  /\ fast' \in sort_values(Filter(df, s_fast_))
  /\ pc' = "plot1"
  /\ UNCHANGED <<file, df, harris, graphs, annot, raised, d, min_step, calls>>

\* the cost column find_taper_point gets from plot_metric: its default
TaperCostCol_x(use_cost_x) == IF use_cost_x THEN "avg_ms" ELSE "features"

TaperCostCol(use_cost_x) == "avg_ms"

\* x.iloc[t]: positional, 0-based
InRange(t, rows) == 0 <= t /\ t < Len(rows)

Iloc(rows, col, t) == rows[t + 1][col]

Mark(rows, xcol, metric_col, t) ==
  IF t = None THEN [x |-> None, y |-> None]
  ELSE [x |-> Iloc(rows, xcol, t), y |-> Iloc(rows, metric_col, t)]

plot_metric ==
  /\ pc \in DOMAIN PlotCalls
  /\ LET call == PlotCalls[pc]
         xcol == IF call.use_cost_x THEN "avg_ms" ELSE "features"
         cost == TaperCostCol(call.use_cost_x)
         th == find_taper_point(harris, call.metric_col, cost, DefaultMinStep,
                                call.taper_threshold)
         tf == find_taper_point(fast, call.metric_col, cost, DefaultMinStep,
                                call.taper_threshold)
     IN IF xcol \notin file.cols \/ call.metric_col \notin file.cols
        THEN /\ Abort("ChartRenderer", "KeyError")
             /\ UNCHANGED <<graphs, annot>>
        ELSE IF cost \notin file.cols
        THEN /\ Abort("TaperDetector", "KeyError")
             /\ UNCHANGED <<graphs, annot>>
        ELSE IF \/ (th # None /\ ~InRange(th, harris))
                \/ (tf # None /\ ~InRange(tf, fast))
        THEN /\ Abort("ChartRenderer", "IndexError")
             /\ UNCHANGED <<graphs, annot>>
        ELSE /\ annot' = annot @@
                  (pc :> [th |-> th, tf |-> tf,
                          mark_h |-> Mark(harris, xcol, call.metric_col, th),
                          mark_f |-> Mark(fast, xcol, call.metric_col, tf)])
             /\ graphs' = graphs \cup {call.filename}
             /\ pc' = call.next
             /\ UNCHANGED raised
  /\ UNCHANGED <<file, df, harris, fast, d, min_step, calls>>

\* find_taper_point(d, "grid_occupancy_percent", "avg_ms", min_step, threshold)
direct_call ==
  /\ pc = "direct"
  /\ \E threshold \in Thresholds \ DOMAIN calls :
       calls' = calls @@
         (threshold :>
            [gain_per_ms |-> gains(d, "grid_occupancy_percent", "avg_ms"),
             ret |-> find_taper_point(d, "grid_occupancy_percent", "avg_ms",
                                      min_step, threshold)])
  /\ UNCHANGED <<pc, file, df, harris, fast, graphs, annot, raised, d, min_step>>

Next ==
  \/ read_excel
  \/ astype_preset
  \/ load_harris
  \/ load_fast
  \/ plot_metric
  \/ direct_call

Spec == Init /\ [][Next]_vars

\* ---------------------------------------------------------------- claims
Loaded ==
  \/ pc \in DOMAIN PlotCalls \cup {"done"}
  \/ pc = "aborted" /\ raised.by # "Loader"

NumGains == IF Len(d) = 0 THEN 0 ELSE Len(d) - 1

\* step j (0-based) of d, straight from the rows
GainAt(j) ==
  [num |-> d[j + 2].grid_occupancy_percent - d[j + 1].grid_occupancy_percent,
   den |-> d[j + 2].avg_ms - d[j + 1].avg_ms]

Decreasing(j) == d[j + 2].grid_occupancy_percent < d[j + 1].grid_occupancy_percent

CostNotDecreasing(j) == d[j + 2].avg_ms >= d[j + 1].avg_ms

WindowFits(i) == i + min_step - 1 <= NumGains - 1

TaperWindows(threshold) ==
  {i \in 0..Len(d) : /\ WindowFits(i)
                     /\ \A j \in i..(i + min_step - 1) : Below(GainAt(j), threshold)}

Least(S) == CHOOSE x \in S : \A y \in S : x <= y

LeqThreshold(t1, t2) == t1[1] * t2[2] <= t2[1] * t1[2]

\* C1: find_taper_point returns i+1 for the smallest i whose min_step gains
\* gain[i..i+min_step-1] all exist and are strictly below the threshold, and
\* None exactly when there is no such i.
C1_FirstWindow ==
  \A threshold \in DOMAIN calls :
    IF TaperWindows(threshold) = {}
    THEN calls[threshold].ret = None
    ELSE calls[threshold].ret = Least(TaperWindows(threshold)) + 1

C1_Witness ==
  \E threshold \in DOMAIN calls :
    /\ min_step = 2 /\ d # EndToEnd
    /\ calls[threshold].ret = 2
    /\ ~Below(GainAt(0), threshold)

\* C2 as stated: on the end-to-end harris rows with threshold 0.05 and
\* min_step 2 the taper index is 2.
C2_Original ==
  (d = EndToEnd /\ min_step = 2 /\ <<1, 20>> \in DOMAIN calls)
    => calls[<<1, 20>>].ret = 2

\* C2 amended: on the end-to-end harris rows the gains per ms are
\* 15.0/8.0 = 1.875, 1.0/9.0 = 0.111 and 0.1/9.0 = 0.0111; with threshold
\* 0.05 only the last one is below the threshold, so with min_step 2 no
\* window qualifies and the detector returns None.
C2_EndToEnd ==
  (d = EndToEnd /\ min_step = 2 /\ <<1, 20>> \in DOMAIN calls)
    => LET c == calls[<<1, 20>>]
       IN /\ c.gain_per_ms = <<[num |-> 150, den |-> 80], [num |-> 10, den |-> 90],
                               [num |-> 1, den |-> 90]>>
          /\ ~Below(c.gain_per_ms[1], <<1, 20>>)
          /\ ~Below(c.gain_per_ms[2], <<1, 20>>)
          /\ Below(c.gain_per_ms[3], <<1, 20>>)
          /\ c.ret = None

C2_Witness == d = EndToEnd /\ min_step = 2 /\ <<1, 20>> \in DOMAIN calls

\* C3: a subset with fewer than min_step + 1 rows yields None.
C3_TooFewRows ==
  \A threshold \in DOMAIN calls :
    Len(d) < min_step + 1 => calls[threshold].ret = None

C3_Witness ==
  /\ Len(d) = min_step
  /\ DOMAIN calls = Thresholds
  /\ \A j \in 0..(NumGains - 1) : Below(GainAt(j), <<1, 20>>)

\* C4 as stated: for a threshold > 0 every metric-decreasing step counts as
\* below the threshold whatever the cost delta, and min_step consecutive
\* metric-decreasing steps from step i give a taper index <= i+1.
C4_Original ==
  \A threshold \in DOMAIN calls :
    threshold[1] > 0 =>
      /\ \A j \in 0..(NumGains - 1) :
           Decreasing(j) => Below(calls[threshold].gain_per_ms[j + 1], threshold)
      /\ \A i \in 0..(NumGains - 1) :
           (WindowFits(i) /\ \A j \in i..(i + min_step - 1) : Decreasing(j))
             => (calls[threshold].ret # None /\ calls[threshold].ret <= i + 1)

\* C4 amended: for a threshold > 0 every step at which the metric decreases
\* and the cost does not decrease counts as below the threshold, and
\* min_step consecutive such steps from step i give a taper index <= i+1.
C4_NegativeGain ==
  \A threshold \in DOMAIN calls :
    threshold[1] > 0 =>
      /\ \A j \in 0..(NumGains - 1) :
           (Decreasing(j) /\ CostNotDecreasing(j))
             => Below(calls[threshold].gain_per_ms[j + 1], threshold)
      /\ \A i \in 0..(NumGains - 1) :
           (WindowFits(i) /\ \A j \in i..(i + min_step - 1) :
                                Decreasing(j) /\ CostNotDecreasing(j))
             => (calls[threshold].ret # None /\ calls[threshold].ret <= i + 1)

C4_Witness ==
  \E threshold \in DOMAIN calls :
    /\ threshold[1] > 0 /\ min_step = 2 /\ Len(d) = 4
    /\ \A j \in 1..2 : Decreasing(j) /\ CostNotDecreasing(j)
    /\ calls[threshold].ret = 2

StableSorted(s) ==
  \A i, j \in 1..Len(s) :
    i < j => \/ s[i].features < s[j].features
             \/ s[i].features = s[j].features /\ s[i].orig < s[j].orig

\* C5: after loading, each subset is the stable ascending sort by features
\* of its rows: non-decreasing features, equal features in table order.
C5_StableSort == Loaded => (StableSorted(harris) /\ StableSorted(fast))

HasPrefix(s, p) == Len(s) >= Len(p) /\ SubSeq(s, 1, Len(p)) = p

Occurrences(sub, i) == Cardinality({k \in 1..Len(sub) : sub[k].orig = i})

\* C6: a row is in harris exactly once iff its preset string starts with
\* "harris_" and otherwise not at all, likewise fast with "fast_"; no row is
\* in both, and the subsets hold nothing but rows of the table.
C6_Partition ==
  Loaded =>
    /\ \A i \in 1..Len(df) :
         /\ Occurrences(harris, i) = IF HasPrefix(df[i].preset, s_harris_) THEN 1 ELSE 0
         /\ Occurrences(fast, i) = IF HasPrefix(df[i].preset, s_fast_) THEN 1 ELSE 0
         /\ ~(Occurrences(harris, i) > 0 /\ Occurrences(fast, i) > 0)
    /\ \A k \in 1..Len(harris) : harris[k].orig \in 1..Len(df) /\ harris[k] = df[harris[k].orig]
    /\ \A k \in 1..Len(fast) : fast[k].orig \in 1..Len(df) /\ fast[k] = df[fast[k].orig]

C6_Witness ==
  /\ Loaded
  /\ Len(harris) >= 1 /\ Len(fast) >= 1
  /\ \E i \in 1..Len(df) :
       /\ Occurrences(harris, i) = 0 /\ Occurrences(fast, i) = 0
       /\ HasPrefix(df[i].preset, <<"h", "a", "r", "r", "i", "s">>)

BadInput == ~file.exists \/ file.cols # Required

\* C7: with a missing file or a missing required column the Loader raises
\* and the run ends before any plot_metric call: no chart is written.
C7_LoaderAborts ==
  (pc # "direct" /\ BadInput) =>
    /\ graphs = {}
    /\ pc \notin DOMAIN PlotCalls \cup {"done"}
    /\ pc = "aborted" => raised.by = "Loader"

\* C8: a returned taper index t satisfies 1 <= t <= n - min_step for the
\* n rows it was computed from, so the positional lookups of plot_metric
\* stay in range.
C8_IndexInRange ==
  /\ \A threshold \in DOMAIN calls :
       calls[threshold].ret # None =>
         (1 <= calls[threshold].ret /\ calls[threshold].ret <= Len(d) - min_step)
  /\ \A k \in DOMAIN annot :
       /\ annot[k].th # None =>
            (1 <= annot[k].th /\ annot[k].th <= Len(harris) - DefaultMinStep)
       /\ annot[k].tf # None =>
            (1 <= annot[k].tf /\ annot[k].tf <= Len(fast) - DefaultMinStep)
  /\ raised.error # "IndexError"

C8_Witness ==
  /\ "plot2" \in DOMAIN annot
  /\ annot["plot1"].th # None /\ annot["plot2"].th # None
  /\ annot["plot2"].mark_h.x # None

\* C9: for thresholds t1 <= t2, an index a at t1 implies an index b <= a at t2.
C9_Monotone ==
  \A t1, t2 \in DOMAIN calls :
    (LeqThreshold(t1, t2) /\ calls[t1].ret # None)
      => (calls[t2].ret # None /\ calls[t2].ret <= calls[t1].ret)

C9_Witness ==
  \E t1, t2 \in DOMAIN calls :
    /\ LeqThreshold(t1, t2) /\ t1 # t2
    /\ calls[t1].ret # None
    /\ calls[t2].ret < calls[t1].ret

SameChart == {<<"plot1", "plot2">>, <<"plot3", "plot4">>}

\* C10: two plot_metric calls with the same metric and threshold but
\* different use_cost_x annotate the same row index of each subset.
C10_AxisIndependent ==
  \A p \in SameChart :
    p[2] \in DOMAIN annot =>
      /\ PlotCalls[p[1]].use_cost_x # PlotCalls[p[2]].use_cost_x
      /\ annot[p[1]].th = annot[p[2]].th
      /\ annot[p[1]].tf = annot[p[2]].tf

C10_Witness ==
  /\ "plot2" \in DOMAIN annot
  /\ annot["plot2"].th # None
  /\ annot["plot1"].mark_h.x # annot["plot2"].mark_h.x

====
